---- MODULE Spec2Model ----
(***************************************************************************)
(* Model of worker-service/src/worker.py: any number of worker processes   *)
(* run main() against one PostgreSQL table `jobs`.  A worker step is one    *)
(* store call of main() (or its local tail up to the next store call); the *)
(* table holds committed rows only.                                        *)
(***************************************************************************)
EXTENDS Integers, FiniteSets, Sequences, TLC

\* ---- bounds of the model ----
NumWorkers == 2
MaxJobs == 2

\* ---- program constants ----
RetrySleep == 5
LoopSleep == 10
NULL == 0

Workers == 1..NumWorkers
Ids == 1..MaxJobs

VARIABLES
    pc,          \* position of each worker in main()
    job_id,      \* main()'s local job_id
    success,     \* main()'s local success
    stamp,       \* datetime.now() evaluated for the UPDATE's parameters
    connOpen,    \* the worker holds a connection that was not closed
    wait,        \* seconds slept at the end of the last finished iteration
    lastFailed,  \* history: the last finished iteration ended in the except handler
    signalled,   \* the process was ended by a signal
    tableExists, \* CREATE TABLE IF NOT EXISTS has been committed
    seq,         \* the SERIAL sequence behind jobs.id
    jobs,        \* committed rows: id -> [status, processed_at]
    clock,       \* wall clock read by datetime.now(), moved on by process_job's sleep
    attempts,    \* history: calls of process_job per id
    writes,      \* history: committed writes of processed_at per id
    issued,      \* history: the ids INSERTs were given, in the order of the INSERTs
    fetched,     \* history: the id this iteration's INSERT returned, 0 if none
    initRuns     \* history: executions of the startup initialization per worker

vars == <<pc, job_id, success, stamp, connOpen, wait, lastFailed,
          signalled, tableExists, seq, jobs, clock, attempts, writes,
          issued, fetched, initRuns>>

\* ---- pure parts of the program ----
\* Each part is preceded, where a property depends on it, by a faulty variant
\* of it that the property must tell apart from the code.

\* process_job (lines 25-30); the variant has lost its return statement.
process_jobNoReturn(id) == FALSE
process_job(id) == TRUE

\* The status the UPDATE writes (line 75).
NewStatusSwapped(ok) == IF ok THEN "failed" ELSE "completed"
NewStatus(ok) == IF ok THEN "completed" ELSE "failed"

\* The id the SERIAL column gives an INSERT (lines 41, 62-66).
nextvalStuck(s) == 1
nextval(s) == s + 1

\* The row an INSERT of status 'pending' creates (lines 41-44, 62-65).
DefaultRowStamped == [status |-> "pending", processed_at |-> 1]
DefaultRow == [status |-> "pending", processed_at |-> NULL]

InsertRowTruncating(tbl, id) == [i \in {id} |-> DefaultRow]
InsertRow(tbl, id) ==
    [i \in DOMAIN tbl \cup {id} |-> IF i = id THEN DefaultRow ELSE tbl[i]]

\* The rows the UPDATE's WHERE id = %s selects (line 74).
MatchedNoWhere(tbl, id) == DOMAIN tbl
Matched(tbl, id) == {i \in DOMAIN tbl : i = id}

\* The committed effect of the UPDATE (lines 73-77).
UpdateRowStatusOnly(tbl, id, st, ts) ==
    [i \in DOMAIN tbl |->
        IF i \in Matched(tbl, id)
        THEN [status |-> st, processed_at |-> tbl[i].processed_at]
        ELSE tbl[i]]
UpdateRow(tbl, id, st, ts) ==
    [i \in DOMAIN tbl |->
        IF i \in Matched(tbl, id)
        THEN [status |-> st, processed_at |-> ts]
        ELSE tbl[i]]

\* The table after an UPDATE whose commit raised: the transaction is never
\* committed (lines 77, 82).
RolledBackApplied(tbl, id, st, ts) == UpdateRow(tbl, id, st, ts)
RolledBack(tbl, id, st, ts) == tbl

\* The value job_id takes from cur.fetchone()[0] (line 66).
AssignJobIdKeep(old, returned) == old
AssignJobId(old, returned) == returned

\* Where an exception raised by the startup initialization takes the worker
\* (lines 51-55).
InitFailTargetRetry == "init"
InitFailTarget == "connect"

\* Where a signal takes the worker: nothing in main() catches it.
SignalTargetCaught == "except"
SignalTarget == "exited"

\* Where an exception raised inside the try block takes the worker (line 82).
HandlerTargetPropagate == "exited"
HandlerTarget == "except"

\* Seconds the handler of worker w sleeps (line 84).
HandlerSleepBackoff(w) == IF lastFailed[w] THEN 2 * RetrySleep ELSE RetrySleep
HandlerSleep(w) == RetrySleep

\* ---- initial state ----

Init ==
    /\ pc = [w \in Workers |-> "init"]
    /\ job_id = [w \in Workers |-> 1]
    /\ success = [w \in Workers |-> FALSE]
    /\ stamp = [w \in Workers |-> NULL]
    /\ connOpen = [w \in Workers |-> FALSE]
    /\ wait = [w \in Workers |-> 0]
    /\ lastFailed = [w \in Workers |-> FALSE]
    /\ signalled = [w \in Workers |-> FALSE]
    /\ tableExists = FALSE
    /\ seq = 0
    /\ jobs = [i \in {} |-> DefaultRow]
    /\ clock = 1
    /\ attempts = [i \in Ids |-> 0]
    /\ writes = [i \in Ids |-> 0]
    /\ issued = << >>
    /\ fetched = [w \in Workers |-> 0]
    /\ initRuns = [w \in Workers |-> 0]

\* ---- steps of main() ----

\* A store operation raises: control goes to the except handler.
Raise(w) ==
    /\ pc' = [pc EXCEPT ![w] = HandlerTarget]
    /\ stamp' = [stamp EXCEPT ![w] = NULL]
    /\ UNCHANGED signalled
    /\ fetched' = [fetched EXCEPT ![w] = 0]
    /\ UNCHANGED <<issued, initRuns>>

InitDbOk(w) ==
    /\ pc[w] = "init"
    /\ pc' = [pc EXCEPT ![w] = "connect"]
    /\ tableExists' = TRUE
    /\ UNCHANGED <<job_id, success, stamp, connOpen, wait,
                   lastFailed, signalled, seq, jobs, clock, attempts, writes>>
    /\ initRuns' = [initRuns EXCEPT ![w] = @ + 1]
    /\ UNCHANGED <<issued, fetched>>

InitDbFail(w) ==
    /\ pc[w] = "init"
    /\ pc' = [pc EXCEPT ![w] = InitFailTarget]
    /\ UNCHANGED <<job_id, success, stamp, connOpen, wait,
                   lastFailed, signalled, tableExists, seq, jobs, clock, attempts,
                   writes>>
    /\ initRuns' = [initRuns EXCEPT ![w] = @ + 1]
    /\ UNCHANGED <<issued, fetched>>

ConnectOk(w) ==
    /\ pc[w] = "connect"
    /\ pc' = [pc EXCEPT ![w] = "insert"]
    /\ connOpen' = [connOpen EXCEPT ![w] = TRUE]
    /\ UNCHANGED <<job_id, success, stamp, wait, lastFailed,
                   signalled, tableExists, seq, jobs, clock, attempts, writes>>
    /\ UNCHANGED <<issued, fetched, initRuns>>

ConnectFail(w) ==
    /\ pc[w] = "connect"
    /\ Raise(w)
    /\ UNCHANGED <<job_id, success, connOpen, wait,
                   lastFailed, tableExists, seq, jobs, clock, attempts, writes>>

InsertOk(w) ==
    /\ pc[w] = "insert"
    /\ tableExists
    /\ seq < MaxJobs
    /\ seq' = nextval(seq)
    /\ issued' = Append(issued, nextval(seq))
    /\ fetched' = [fetched EXCEPT ![w] = nextval(seq)]
    /\ job_id' = [job_id EXCEPT ![w] = AssignJobId(job_id[w], nextval(seq))]
    /\ pc' = [pc EXCEPT ![w] = "commit_insert"]
    /\ UNCHANGED <<success, stamp, connOpen, wait, lastFailed,
                   signalled, tableExists, jobs, clock, attempts, writes>>
    /\ UNCHANGED initRuns

InsertFail(w) ==
    /\ pc[w] = "insert"
    /\ Raise(w)
    /\ UNCHANGED <<job_id, success, connOpen, wait,
                   lastFailed, tableExists, seq, jobs, clock, attempts, writes>>

CommitInsertOk(w) ==
    /\ pc[w] = "commit_insert"
    /\ jobs' = InsertRow(jobs, job_id[w])
    /\ pc' = [pc EXCEPT ![w] = "process"]
    /\ UNCHANGED <<job_id, success, stamp, connOpen, wait,
                   lastFailed, signalled, tableExists, seq, clock, attempts,
                   writes>>
    /\ UNCHANGED <<issued, fetched, initRuns>>

CommitInsertFail(w) ==
    /\ pc[w] = "commit_insert"
    /\ Raise(w)
    /\ UNCHANGED <<job_id, success, connOpen, wait,
                   lastFailed, tableExists, seq, jobs, clock, attempts, writes>>

\* process_job(job_id): two seconds of simulated work pass on the wall clock.
ProcessJob(w) ==
    /\ pc[w] = "process"
    /\ success' = [success EXCEPT ![w] = process_job(job_id[w])]
    /\ attempts' = [attempts EXCEPT ![job_id[w]] = @ + 1]
    /\ clock' = clock + 1
    /\ pc' = [pc EXCEPT ![w] = "update"]
    /\ UNCHANGED <<job_id, stamp, connOpen, wait, lastFailed, signalled,
                   tableExists, seq, jobs, writes>>
    /\ UNCHANGED <<issued, fetched, initRuns>>

UpdateOk(w) ==
    /\ pc[w] = "update"
    /\ stamp' = [stamp EXCEPT ![w] = clock]
    /\ pc' = [pc EXCEPT ![w] = "commit_update"]
    /\ UNCHANGED <<job_id, success, connOpen, wait, lastFailed,
                   signalled, tableExists, seq, jobs, clock, attempts, writes>>
    /\ UNCHANGED <<issued, fetched, initRuns>>

UpdateFail(w) ==
    /\ pc[w] = "update"
    /\ Raise(w)
    /\ UNCHANGED <<job_id, success, connOpen, wait,
                   lastFailed, tableExists, seq, jobs, clock, attempts, writes>>

CommitUpdateOk(w) ==
    /\ pc[w] = "commit_update"
    /\ jobs' = UpdateRow(jobs, job_id[w], NewStatus(success[w]), stamp[w])
    /\ writes' = [i \in Ids |->
                    IF i \in Matched(jobs, job_id[w])
                    THEN writes[i] + 1 ELSE writes[i]]
    /\ stamp' = [stamp EXCEPT ![w] = NULL]
    /\ pc' = [pc EXCEPT ![w] = "close"]
    /\ UNCHANGED <<job_id, success, connOpen, wait,
                   lastFailed, signalled, tableExists, seq, clock, attempts>>
    /\ UNCHANGED <<issued, fetched, initRuns>>

CommitUpdateFail(w) ==
    /\ pc[w] = "commit_update"
    /\ Raise(w)
    /\ jobs' = RolledBack(jobs, job_id[w], NewStatus(success[w]), stamp[w])
    /\ UNCHANGED <<job_id, success, connOpen, wait,
                   lastFailed, tableExists, seq, clock, attempts, writes>>

\* Success path: cur.close(), conn.close(), then the loop's sleep (lines 79-86).
Close(w) ==
    /\ pc[w] = "close"
    /\ connOpen' = [connOpen EXCEPT ![w] = FALSE]
    /\ lastFailed' = [lastFailed EXCEPT ![w] = FALSE]
    /\ wait' = [wait EXCEPT ![w] = LoopSleep]
    /\ pc' = [pc EXCEPT ![w] = "connect"]
    /\ UNCHANGED <<job_id, success, stamp, signalled, tableExists, seq, jobs,
                   clock, attempts, writes>>
    /\ fetched' = [fetched EXCEPT ![w] = 0]
    /\ UNCHANGED <<issued, initRuns>>

\* Exception path: the handler logs and sleeps, then the loop's sleep
\* (lines 82-86).  The connection of the iteration is not closed.
Except(w) ==
    /\ pc[w] = "except"
    /\ lastFailed' = [lastFailed EXCEPT ![w] = TRUE]
    /\ wait' = [wait EXCEPT ![w] = HandlerSleep(w) + LoopSleep]
    /\ pc' = [pc EXCEPT ![w] = "connect"]
    /\ UNCHANGED <<job_id, success, stamp, connOpen, signalled, tableExists,
                   seq, jobs, clock, attempts, writes>>
    /\ UNCHANGED <<issued, fetched, initRuns>>

\* SIGTERM / KeyboardInterrupt: not an Exception, so nothing in main() catches it;
\* the process ends and its memory and connections with it.
Kill(w) ==
    /\ pc[w] # "exited"
    /\ pc' = [pc EXCEPT ![w] = SignalTarget]
    /\ signalled' = [signalled EXCEPT ![w] = TRUE]
    /\ connOpen' = [connOpen EXCEPT ![w] = FALSE]
    /\ job_id' = [job_id EXCEPT ![w] = 1]
    /\ success' = [success EXCEPT ![w] = FALSE]
    /\ stamp' = [stamp EXCEPT ![w] = NULL]
    /\ wait' = [wait EXCEPT ![w] = 0]
    /\ lastFailed' = [lastFailed EXCEPT ![w] = FALSE]
    /\ UNCHANGED <<tableExists, seq, jobs, clock, attempts, writes>>
    /\ fetched' = [fetched EXCEPT ![w] = 0]
    /\ UNCHANGED <<issued, initRuns>>

Step(w) ==
    \/ InitDbOk(w)
    \/ InitDbFail(w)
    \/ ConnectOk(w)
    \/ ConnectFail(w)
    \/ InsertOk(w)
    \/ InsertFail(w)
    \/ CommitInsertOk(w)
    \/ CommitInsertFail(w)
    \/ ProcessJob(w)
    \/ UpdateOk(w)
    \/ UpdateFail(w)
    \/ CommitUpdateOk(w)
    \/ CommitUpdateFail(w)
    \/ Close(w)
    \/ Except(w)

Next ==
    \/ \E w \in Workers : Step(w)
    \/ \E w \in Workers : Kill(w)

Spec == Init /\ [][Next]_vars

\* The operating system schedules every live worker; signals are not owed.
FairSpec == Spec /\ \A w \in Workers : WF_vars(Step(w))

\* ---- vocabulary of the properties ----

\* The worker has the id its INSERT returned and has not yet committed the
\* row's final status (lines 66-77).
Holding(w) == pc[w] \in {"commit_insert", "process", "update", "commit_update"}

Live(w) == pc[w] # "exited"

Terminal(i) == i \in DOMAIN jobs /\ jobs[i].status \in {"completed", "dead"}

\* A committed pending row that no running iteration will ever update.
Abandoned(i) ==
    /\ i \in DOMAIN jobs
    /\ jobs[i].status = "pending"
    /\ \A w \in Workers : ~(Holding(w) /\ job_id[w] = i)

SpecEdges ==
    {<<"pending", "claimed">>, <<"claimed", "completed">>,
     <<"claimed", "failed">>, <<"failed", "pending">>,
     <<"failed", "dead">>, <<"claimed", "pending">>}

\* The step commits worker w's UPDATE.
CommitsUpdate(w) == pc[w] = "commit_update" /\ pc'[w] = "close"

\* The step writes row i (its content or its write history changes).
Written(i) == jobs'[i] # jobs[i] \/ writes'[i] # writes[i]

\* ---- C1 ----
\* C1: no two workers hold the same job at the same time: two workers that
\* are both between obtaining an id and committing its final status have
\* different ids.
C1_NoDoubleHold ==
    \A w1, w2 \in Workers :
        (w1 # w2 /\ Holding(w1) /\ Holding(w2)) => job_id[w1] # job_id[w2]

C1_Witness ==
    \E w1, w2 \in Workers :
        /\ w1 # w2
        /\ pc[w1] = "process"
        /\ pc[w2] = "commit_update"
        /\ job_id[w1] \in DOMAIN jobs
        /\ job_id[w2] \in DOMAIN jobs

\* ---- C2 ----
\* C2: a job whose worker crashed or whose iteration aborted after the job was
\* obtained and before its final status was written eventually reaches
\* status completed or dead, as long as a worker is left running.
C2_AbandonedJobFinishes ==
    \A i \in Ids :
        (Abandoned(i) /\ \E w \in Workers : Live(w))
            ~> (Terminal(i) \/ \A w \in Workers : ~Live(w))

\* ---- C3 ----
\* C3 (as claimed): a job's status changes only along pending->claimed,
\* claimed->completed, claimed->failed, failed->pending, failed->dead and
\* claimed->pending; never from pending directly to completed or failed.
C3_SpecEdgesOnly ==
    [][\A i \in DOMAIN jobs :
         jobs'[i].status # jobs[i].status
            => <<jobs[i].status, jobs'[i].status>> \in SpecEdges]_vars

\* C3 (amended): a job's status changes only along the edge
\* pending->completed, and a row is created with status pending.
C3_PendingToCompletedOnly ==
    [][/\ \A i \in DOMAIN jobs :
            jobs'[i].status # jobs[i].status
               => (jobs[i].status = "pending" /\ jobs'[i].status = "completed")
       /\ \A i \in DOMAIN jobs' \ DOMAIN jobs : jobs'[i].status = "pending"]_vars

C3_Witness ==
    \E i \in DOMAIN jobs : jobs[i].status = "completed" /\ attempts[i] = 1

\* ---- C4 ----
\* C4 (as claimed): a completion write takes effect only on a job whose status
\* is claimed and whose claimant is the calling worker.
C4_OnlyClaimedByCaller ==
    [][\A i \in DOMAIN jobs :
         Written(i)
            => /\ jobs[i].status = "claimed"
               /\ \E w \in Workers : CommitsUpdate(w) /\ job_id[w] = i]_vars

\* C4 (amended): a completion write takes effect only on the row the calling
\* worker inserted in the same iteration, which is then pending; a completed
\* row is never written again, so its status and timestamp stay as they are.
C4_OnlyOwnPendingRow ==
    [][\A i \in DOMAIN jobs :
         Written(i)
            => /\ jobs[i].status = "pending"
               /\ writes[i] = 0
               /\ \E w \in Workers : CommitsUpdate(w) /\ job_id[w] = i]_vars

C4_Witness ==
    \E w \in Workers :
        /\ pc[w] = "close"
        /\ job_id[w] \in DOMAIN jobs
        /\ jobs[job_id[w]].status = "completed"
        /\ \E i \in DOMAIN jobs : i # job_id[w] /\ jobs[i].status = "completed"

\* ---- C5 ----
\* C5: every completed job had its completion timestamp written exactly once
\* and was attempted at least once; a job that is not completed has had no
\* timestamp written (the write happens only on the transition into completed).
C5_CompletedWrittenOnce ==
    \A i \in DOMAIN jobs :
        /\ jobs[i].status = "completed"
              => (writes[i] = 1 /\ attempts[i] >= 1
                  /\ jobs[i].processed_at # NULL)
        /\ jobs[i].status # "completed"
              => (writes[i] = 0 /\ jobs[i].processed_at = NULL)

C5_Witness ==
    \E i, j \in DOMAIN jobs :
        /\ jobs[i].status = "completed" /\ writes[i] = 1
        /\ jobs[j].status = "pending" /\ attempts[j] = 1

\* ---- C6 ----
\* C6: no store error ends the worker: a worker leaves the program only by a
\* signal, and after an error it runs the handler, waits and starts a further
\* iteration.
C6_ErrorsNeverTerminate ==
    [][\A w \in Workers :
         /\ (pc'[w] = "exited" /\ pc[w] # "exited")
               => (signalled'[w] /\ ~signalled[w])
         /\ (pc[w] = "except" /\ pc'[w] \notin {"except", "exited"})
               => pc'[w] = "connect"]_vars

C6_Witness ==
    \E w \in Workers : lastFailed[w] /\ pc[w] = "insert" /\ seq > 0

\* ---- C7 ----
\* C7: a step in which a store operation raises leaves every job row as it
\* was: same rows, same status, same completion timestamp.
C7_ErrorKeepsRows ==
    [][\A w \in Workers :
         (pc'[w] = "except" /\ pc[w] # "except")
            => (DOMAIN jobs' = DOMAIN jobs
                /\ \A i \in DOMAIN jobs : jobs'[i] = jobs[i])]_vars

C7_Witness ==
    \E w \in Workers :
        /\ pc[w] = "except"
        /\ job_id[w] \in DOMAIN jobs
        /\ jobs[job_id[w]].status = "pending"
        /\ attempts[job_id[w]] = 1
        /\ success[w]

\* ---- C9 ----
\* C9 (as claimed): the wait grows with the number of consecutive
\* unsuccessful iterations: the wait after the second (or a later)
\* consecutive failure is longer than the wait after the failure before it.
C9_WaitGrows ==
    [][\A w \in Workers :
         (pc[w] = "except" /\ pc'[w] = "connect" /\ lastFailed[w])
            => wait'[w] > wait[w]]_vars

\* C9 (amended): the wait is fixed: RetrySleep + LoopSleep after an
\* unsuccessful iteration, whatever the number of consecutive failures, and
\* LoopSleep after a successful one.
C9_WaitFixed ==
    [][\A w \in Workers :
         /\ (pc[w] = "except" /\ pc'[w] = "connect")
               => wait'[w] = RetrySleep + LoopSleep
         /\ (pc[w] = "close" /\ pc'[w] = "connect")
               => wait'[w] = LoopSleep]_vars

\* Worker w alone has run: two iterations, each of which got as far as
\* process_job and then ended in the handler, so its last wait follows (at
\* least) the second consecutive unsuccessful iteration.
C9_Witness ==
    \E w \in Workers :
        /\ pc[w] = "connect"
        /\ lastFailed[w]
        /\ wait[w] = RetrySleep + LoopSleep
        /\ \A v \in Workers \ {w} : pc[v] = "init"
        /\ seq = 2
        /\ \A i \in 1..2 :
              i \in DOMAIN jobs /\ jobs[i].status = "pending" /\ attempts[i] = 1

\* ---- C10 ----
\* C10: no step removes a job row: every row of the table is a row of the
\* table after the step.
C10_NeverDeletes ==
    [][DOMAIN jobs \subseteq DOMAIN jobs']_vars

C10_Witness ==
    /\ Cardinality(DOMAIN jobs) = MaxJobs
    /\ \E i \in DOMAIN jobs : jobs[i].status = "completed"

\* ---- C11 ----
\* C11: ids are given by the store, unique and increasing: an INSERT executed
\* later is given a strictly larger id than every INSERT executed before it,
\* every row's id is one of the ids given, and no INSERT waits to commit a
\* row under an id the table already holds.
C11_IdsUniqueIncreasing ==
    /\ \A a, b \in 1..Len(issued) : a < b => issued[a] < issued[b]
    /\ \A i \in DOMAIN jobs : \E a \in 1..Len(issued) : issued[a] = i
    /\ \A w \in Workers : pc[w] = "commit_insert" => job_id[w] \notin DOMAIN jobs

\* Two workers' INSERTs interleave: the later INSERT's row (larger id) is
\* already committed while the earlier INSERT's row is not yet.
C11_Witness ==
    \E w \in Workers :
        /\ pc[w] = "commit_insert"
        /\ Len(issued) = 2
        /\ job_id[w] = issued[1]
        /\ issued[2] \in DOMAIN jobs

\* ---- C12 ----
\* C12: a signalled worker abandons whatever it has in flight and is stopped
\* from then on: it is at its terminal position as soon as the signal has
\* acted, and afterwards it takes no step, so it inserts no further job.
C12_SignalStops ==
    [][\A w \in Workers :
         /\ signalled'[w] => pc'[w] = "exited"
         /\ signalled[w]
               => (pc'[w] = pc[w] /\ job_id'[w] = job_id[w]
                   /\ fetched'[w] = fetched[w])]_vars

\* The only worker that has run was signalled between process_job and the
\* UPDATE's commit: its job is left pending.
C12_Witness ==
    \E w \in Workers :
        /\ signalled[w]
        /\ pc[w] = "exited"
        /\ \A v \in Workers \ {w} : pc[v] = "init"
        /\ \E i \in DOMAIN jobs : jobs[i].status = "pending" /\ attempts[i] = 1

\* ---- C13 ----
\* C13: process_job returns True, so an iteration that raises nothing commits
\* a pending row, runs process_job on that row's id and marks that row
\* completed; every row is pending or completed, never failed.
C13_StubIteration ==
    /\ \A i \in DOMAIN jobs : jobs[i].status \in {"pending", "completed"}
    /\ \A w \in Workers :
        /\ pc[w] = "process"
              => (job_id[w] \in DOMAIN jobs
                  /\ jobs[job_id[w]].status = "pending")
        /\ pc[w] \in {"update", "commit_update", "close"} => success[w]
        /\ pc[w] = "close"
              => (job_id[w] \in DOMAIN jobs
                  /\ jobs[job_id[w]].status = "completed")

C13_Witness ==
    \E w \in Workers :
        /\ pc[w] = "close"
        /\ success[w]
        /\ fetched[w] = job_id[w]
        /\ jobs[job_id[w]].status = "completed"
        /\ attempts[job_id[w]] = 1
        /\ writes[job_id[w]] = 1

\* ---- C14 ----
\* C14: process_job and the UPDATE act on exactly the id that the same
\* iteration's INSERT returned: never on the initial job_id, on the id of an
\* earlier iteration or on the id another worker's INSERT returned.
C14_TargetsOwnInsert ==
    [][\A w \in Workers :
         /\ (fetched[w] # 0)
               => \A v \in Workers \ {w} : fetched[v] # fetched[w]
         /\ (pc[w] = "process" /\ pc'[w] = "update")
               => /\ fetched[w] # 0
                  /\ \A i \in Ids : attempts'[i] # attempts[i] => i = fetched[w]
         /\ CommitsUpdate(w)
               => /\ fetched[w] # 0
                  /\ \A i \in DOMAIN jobs : Written(i) => i = fetched[w]]_vars

\* The only worker that has run is in its second iteration and has completed
\* the second row; the first row is the earlier iteration's.
C14_Witness ==
    \E w \in Workers :
        /\ pc[w] = "close"
        /\ \A v \in Workers \ {w} : pc[v] = "init"
        /\ Len(issued) = 2
        /\ fetched[w] = issued[2]
        /\ issued[1] \in DOMAIN jobs
        /\ writes[issued[2]] = 1
        /\ writes[issued[1]] <= 1

\* ---- C15 ----
\* C15: at the start of each iteration (before get_db_connection is called)
\* the worker holds no open connection of an earlier iteration, whether that
\* iteration ended on the success path or in the except handler.
C15_NoConnectionAtIterationStart ==
    \A w \in Workers : pc[w] = "connect" => ~connOpen[w]

\* ---- C16 ----
\* C16: in every state a row's processed_at is NULL exactly when its status
\* is pending; and a pending row that no running iteration holds stays as it
\* is, pending with processed_at NULL, in every later state.
C16_NullIffPending ==
    /\ [](\A i \in DOMAIN jobs :
              (jobs[i].processed_at = NULL) <=> (jobs[i].status = "pending"))
    /\ [][\A i \in Ids :
              Abandoned(i) => (Abandoned(i)' /\ jobs'[i] = jobs[i])]_vars

\* An iteration of a worker that is still running aborted after process_job;
\* its row stays behind while another row has been completed.
C16_Witness ==
    \E i, j \in DOMAIN jobs :
        /\ Abandoned(i)
        /\ attempts[i] = 1
        /\ jobs[i].processed_at = NULL
        /\ jobs[j].status = "completed"
        /\ jobs[j].processed_at # NULL
        /\ \E w \in Workers : pc[w] = "connect" /\ lastFailed[w]

\* ---- C17 ----
\* C17: the startup initialization runs exactly once per worker run, before
\* the first iteration: whether it succeeds or raises, the worker goes on to
\* the loop, and no later step attempts it again.
C17_InitOnce ==
    [][\A w \in Workers :
         /\ initRuns'[w] <= 1
         /\ (pc[w] = "init" /\ pc'[w] # "init" /\ ~signalled'[w])
               => (pc'[w] = "connect" /\ initRuns'[w] = 1)
         /\ pc[w] # "init"
               => (initRuns'[w] = initRuns[w] /\ pc'[w] # "init")]_vars

\* The initialization raised (the table was never created); the worker is in
\* the loop, where its INSERT has raised in turn.
C17_Witness ==
    \E w \in Workers :
        /\ ~tableExists
        /\ initRuns[w] = 1
        /\ pc[w] = "except"
        /\ connOpen[w]

====
